---- MODULE Spec2Model ----
(***************************************************************************)
(* TrustCircle: bookings (status workflow, messages, cancellation fee,     *)
(* pricing), reviews, reputation, community posts, accounts and services,  *)
(* as the server code persists them.                                       *)
(*                                                                         *)
(* Money is in integer cents.  Time is in whole hours since an arbitrary   *)
(* epoch.  An unset Date or Number field of a document is -1, an unset     *)
(* ObjectId or String field is "none".                                     *)
(***************************************************************************)
EXTENDS Integers, Sequences, FiniteSets, TLC

VARIABLES
    booking,    \* the stored Booking document
    reviews,    \* the Review collection, in insertion order
    users,      \* the stored User documents
    rinflight,  \* per request slot: how far its POST /api/reviews has got
    resp,       \* the request handled last and the answer it got
    now,        \* the server clock, in hours
    post,       \* the stored Community post
    pinflight,  \* per request slot: a like or attend request that has loaded the post
    accounts,   \* the User collection as the account routes see it: email, isActive
    service,    \* the stored Service document
    sinflight,  \* a DELETE /api/services/:id that has counted the active bookings
    sockets,    \* per socket id: the connection, its user and its rooms
    connectedUsers  \* the connected users Map: user id -> socket id

vars == <<booking, reviews, users, rinflight, resp, now,
          post, pinflight, accounts, service, sinflight,
          sockets, connectedUsers>>
reviewVars == <<reviews, rinflight>>
bookingVars == <<booking, reviews, users, rinflight>>
communityVars == <<post, pinflight>>
serviceVars == <<service, sinflight>>
socketVars == <<sockets, connectedUsers>>
storeVars == <<post, pinflight, accounts, service, sinflight>>
otherVars == <<storeVars, socketVars>>

-----------------------------------------------------------------------------
(* Bounds of the model *)

MaxHistory == 3     \* statusHistory entries kept per booking
MaxMessages == 2    \* messages kept per booking
MaxReviewHistory == 5   \* statusHistory entries in SpecReview

-----------------------------------------------------------------------------
(* Users and request inputs *)

UserA == "A"        \* provider of the booked service
UserB == "B"        \* customer of the booking
UserC == "C"        \* a registered user who takes no part in the booking
Users == {UserA, UserB, UserC}
Participants == {UserA, UserB}

BookingId == "b1"   \* the _id of the booking

Slots == {1, 2}     \* review requests that can be in progress together
NoReq == [phase |-> "idle"]

\* reviewSchema.reviewType enum
ReviewTypes == {"customer_to_provider", "provider_to_customer"}

\* ratings a client sends (valid: integers 1..5)
Ratings == {2, 5}

\* service.pricing: type, amount in cents; estimatedDuration in minutes
\* (a negotiable service without an amount gives NaN prices, which
\* Booking.create refuses, so every stored booking had an amount)
PricingTypes == {"fixed", "hourly", "per_project", "negotiable"}
Amounts == {4999, 10000}
Durations == {45, 60, 120}

\* bookingSchema.status enum
Statuses ==
    {"pending", "confirmed", "in_progress", "completed", "cancelled",
     "no_show", "disputed"}

\* body('status').isIn([...]) of PUT /:id/status
PutStatuses == {"confirmed", "in_progress", "completed", "cancelled", "no_show"}

\* bookingSchema.cancellation.reason enum
CancellationReasons ==
    {"customer_request", "provider_unavailable", "weather", "emergency",
     "payment_issue", "mutual_agreement", "other"}

\* reasons a client sends: none, an enum word, free text
ReasonInputs == {"", "other", "Schedule conflict - need to reschedule"}

\* message texts a client sends (already trimmed)
MessageInputs == {"", "hi"}

\* the hours at which the clock is observed
Times == {18, 24, 28, 38, 46, 47, 48, 72, 73}

-----------------------------------------------------------------------------
(* Booking document methods *)

\* a table that lets a pending booking start at once
validTransitionsSkipConfirm(status) ==
    CASE status = "pending"     -> {"confirmed", "in_progress", "cancelled"}
      [] status = "confirmed"   -> {"in_progress", "cancelled", "no_show"}
      [] status = "in_progress" -> {"completed", "cancelled"}
      [] OTHER                  -> {}

\* validTransitions of PUT /:id/status; the table has no key "disputed"
validTransitions(status) ==
    CASE status = "pending"     -> {"confirmed", "cancelled"}
      [] status = "confirmed"   -> {"in_progress", "cancelled", "no_show"}
      [] status = "in_progress" -> {"completed", "cancelled"}
      [] OTHER                  -> {}

\* a policy whose two thresholds are inclusive
CancellationPolicyInclusive(hoursUntilBooking, totalAmount) ==
    IF hoursUntilBooking >= 24 THEN 0
    ELSE IF hoursUntilBooking >= 2 THEN (totalAmount * 25) \div 100
    ELSE (totalAmount * 50) \div 100

\* the cancellation policy of calculateCancellationFee; the totals of the
\* model are multiples of 4 cents, so the products are exact
CancellationPolicy(hoursUntilBooking, totalAmount) ==
    IF hoursUntilBooking > 24 THEN 0
    ELSE IF hoursUntilBooking > 2 THEN (totalAmount * 25) \div 100
    ELSE (totalAmount * 50) \div 100

\* calculateCancellationFee at time t: bookingTime is new Date(scheduledDate),
\* scheduledTime is not read
calculateCancellationFee(b, t) ==
    LET bookingTime == b.scheduledDate
        hoursUntilBooking == bookingTime - t
    IN  CancellationPolicy(hoursUntilBooking, b.pricing.totalAmount)

\* schema validation run by save() on the paths updateStatus modified:
\* status and cancellation.reason are enum paths
SaveValidates(b, newStatus, reason) ==
    /\ newStatus \in Statuses
    /\ (newStatus = "cancelled" /\ b.cancellation.cancelledAt = -1)
          => reason \in CancellationReasons

\* Math.round of the non-negative fraction n/d, d even (halves round up)
RoundHalfUp(n, d) == (n + d \div 2) \div d

\* POST /api/bookings "Calculate pricing": amount in cents, duration in
\* minutes; fee and taxes are taken from the unrounded service price and
\* each of the four amounts is rounded to cents on its own.  The arithmetic
\* is exact here, not binary floating point.
RoutePricing(amount, type, duration) ==
    LET n == IF type = "hourly" THEN amount * duration ELSE amount * 60
    IN  [servicePrice |-> RoundHalfUp(n, 60),
         platformFee  |-> RoundHalfUp(n, 2000),          \* 3/100 of n/60
         taxes        |-> RoundHalfUp(103 * n, 75000),   \* 8/100 of 103/100
         totalAmount  |-> RoundHalfUp(927 * n, 50000)]   \* 111.24/100

\* a pre-save hook that keeps the total it is given
PreSaveTotalKept(pricing, modified) == pricing

\* bookingSchema.pre('save'): recompute the total when pricing is modified
PreSaveTotal(pricing, modified) ==
    IF modified
    THEN [pricing EXCEPT !.totalAmount =
             pricing.servicePrice + pricing.platformFee + pricing.taxes]
    ELSE pricing

\* JavaScript's NaN, the value of 0 / 0
NaN == -1

\* a User document as registration stores it (schema defaults);
\* averageRating is the exact fraction num / den
NewUser ==
    [trustScore |-> 0,
     reputation |-> [totalReviews |-> 0,
                     averageRating |-> [num |-> 0, den |-> 1],
                     completedServices |-> 0,
                     cancelledServices |-> 0]]

\* userSchema.methods.calculateTrustScore on reputation rep
calculateTrustScore(rep) ==
    LET totalReviews == rep.totalReviews
        averageRating == rep.averageRating
        completedServices == rep.completedServices
        cancelledServices == rep.cancelledServices
        served == completedServices + cancelledServices
        \* score = (averageRating / 5) * 100 * completionRate + reviewBonus,
        \* as the fraction n / d
        d == 5 * averageRating.den * served
        n == 100 * averageRating.num * completedServices
               + (IF totalReviews < 50 THEN totalReviews ELSE 50)
                   * averageRating.den * served
        rounded == RoundHalfUp(2 * n, 2 * d)
    IN  IF totalReviews = 0 THEN 0
        ELSE IF served = 0 THEN NaN        \* completionRate is 0 / 0
        ELSE IF rounded < 100 THEN rounded ELSE 100

\* userSchema.methods.updateTrustScore
updateTrustScore(user) ==
    [user EXCEPT !.trustScore = calculateTrustScore(user.reputation)]

\* validation run by user.save(): trustScore is a Number (NaN does not cast)
\* with min 0 and max 100
UserSaveValidates(user) ==
    user.trustScore # NaN /\ user.trustScore >= 0 /\ user.trustScore <= 100

\* an updateStatus that stamps completion and cancellation on every call
updateStatusRestamps(b, newStatus, changedBy, reason, t) ==
    LET b1 == [b EXCEPT
                 !.statusHistory = Append(@, [status |-> b.status,
                                              changedBy |-> changedBy,
                                              reason |-> reason]),
                 !.status = newStatus,
                 !.completedAt = IF newStatus = "completed" THEN t ELSE @]
        b2 == IF newStatus = "cancelled"
              THEN [b1 EXCEPT !.cancellation.cancelledAt = t,
                              !.cancellation.cancelledBy = changedBy,
                              !.cancellation.reason = reason]
              ELSE b1
    IN  [b2 EXCEPT !.pricing = PreSaveTotal(@, FALSE)]

\* updateStatus(newStatus, changedBy, reason) followed by its save()
updateStatus(b, newStatus, changedBy, reason, t) ==
    LET b1 == [b EXCEPT
                 !.statusHistory = Append(@, [status |-> b.status,
                                              changedBy |-> changedBy,
                                              reason |-> reason]),
                 !.status = newStatus,
                 !.completedAt =
                     IF newStatus = "completed" /\ @ = -1 THEN t ELSE @]
        b2 == IF newStatus = "cancelled" /\ b.cancellation.cancelledAt = -1
              THEN [b1 EXCEPT !.cancellation.cancelledAt = t,
                              !.cancellation.cancelledBy = changedBy,
                              !.cancellation.reason = reason]
              ELSE b1
    IN  [b2 EXCEPT !.pricing = PreSaveTotal(@, FALSE)]   \* this.save()

\* a participancy check that compares with the customer only and lets
\* every user through
isParticipantAnyUser(b, u) == u = b.customer \/ u # b.customer

\* bookingParticipant middleware / isParticipant of the socket handlers
isParticipant(b, u) == u = b.customer \/ u = b.provider

\* the step leaves at most h statusHistory entries and m messages
Bounded(h, m) ==
    /\ Len(booking'.statusHistory) <= h
    /\ Len(booking'.messages) <= m

Answer(op, u, target, reason, code, fee) ==
    [op |-> op, user |-> u, target |-> target, reason |-> reason,
     code |-> code, fee |-> fee]

-----------------------------------------------------------------------------
(* Initial state: one booking of B on a service of A, as Booking.create    *)
(* stored it                                                               *)

\* Booking.create(bookingData): the document of a new booking after both
\* pre-save hooks
BookingCreate(customer, provider, pricing, time) ==
    [customer |-> customer, provider |-> provider,
     status |-> "pending",
     statusHistory |-> << [status |-> "pending", changedBy |-> customer,
                           reason |-> "Booking created"] >>,
     completedAt |-> -1,
     cancellation |-> [cancelledAt |-> -1, cancelledBy |-> "none",
                       reason |-> "none", refundAmount |-> -1,
                       refundStatus |-> "not_applicable"],
     messages |-> << >>,
     customerReview |-> "none",
     providerReview |-> "none",
     pricing |-> PreSaveTotal(pricing, TRUE),
     scheduledDate |-> 48,
     scheduledTime |-> time]

InitBooking(amount, time) ==
    BookingCreate(UserB, UserA, RoutePricing(amount, "fixed", 60), time)

NoAnswer == Answer("none", "none", "none", "none", "none", -1)

(* The documents of the other collections as they are first stored.  A     *)
(* post's likes and bookmarks are the users of the entries, in order; an   *)
(* attendee is its user and status; an image is its isPrimary flag; an     *)
(* email is its address with the deletion stamps put in front of it.       *)

Emails == {"a@x.io", "b@x.io"}
Email(addr) == [stamps |-> << >>, addr |-> addr]

NewAccount(email) ==
    [email |-> email, isActive |-> TRUE, isSuspended |-> FALSE]

InitAccounts == << NewAccount(Email("a@x.io")), NewAccount(Email("b@x.io")) >>

\* the account of the provider of the service
ProviderAccount == 1

NewPost(type, expiresAt, pinnedUntil, views) ==
    [type |-> type, author |-> UserA, status |-> "active",
     expiresAt |-> expiresAt, isExpired |-> FALSE,
     pinnedUntil |-> pinnedUntil, isPinned |-> pinnedUntil # -1,
     featuredUntil |-> -1, isFeatured |-> FALSE,
     views |-> views, engagementRate |-> 0,
     likes |-> << >>, bookmarks |-> << >>, attendees |-> << >>]

hasPrimary(images) == \E i \in 1..Len(images) : images[i]

\* serviceSchema.pre('save')
servicePreSave(s) ==
    IF Len(s.images) > 0 /\ ~hasPrimary(s.images)
    THEN [s EXCEPT !.images[1] = TRUE]
    ELSE s

\* a weekly schedule with Monday and Tuesday, Tuesday not available, and no
\* dated exception
WeekSchedule ==
    [schedule |-> << [day |-> "monday", available |-> TRUE],
                     [day |-> "tuesday", available |-> FALSE] >>,
     exceptions |-> << >>]

\* Service.create(serviceData)
ServiceCreate(u, images) ==
    servicePreSave([provider |-> u, isActive |-> TRUE, isPaused |-> FALSE,
                    images |-> images,
                    availability |-> WeekSchedule,
                    stats |-> [completedBookings |-> 0,
                               cancelledBookings |-> 0]])

-----------------------------------------------------------------------------
(* Socket connections *)

SocketIds == {"s1", "s2"}   \* socket.id of the connections that can be open
Rooms == {"user", "booking"}    \* user_<socket.userId>, booking_<BookingId>

\* no connection under this socket id
NoSocket == [open |-> FALSE, userId |-> "none", rooms |-> {},
             received |-> FALSE]

\* new Map(), and no socket connected
InitSockets ==
    /\ sockets = [s \in SocketIds |-> NoSocket]
    /\ connectedUsers = [u \in Users |-> "none"]

\* io.to(`booking_${bookingId}`).emit(event, data): every socket in the room
\* receives the event
emitToBooking(ss) ==
    [s \in DOMAIN ss |->
        IF ss[s].open /\ "booking" \in ss[s].rooms
        THEN [ss[s] EXCEPT !.received = TRUE]
        ELSE ss[s]]

InitOther ==
    /\ post = NewPost("event", 72, 47, 4)
    /\ pinflight = [s \in Slots |-> NoReq]
    /\ accounts = InitAccounts
    /\ service = ServiceCreate(UserA, << FALSE >>)
    /\ sinflight = NoReq
    /\ InitSockets

Init ==
    /\ booking = InitBooking(10000, 0)
    /\ reviews = << >>
    /\ users = [u \in Users |-> NewUser]
    /\ rinflight = [s \in Slots |-> NoReq]
    /\ resp = NoAnswer
    /\ InitOther
    /\ now = 28

-----------------------------------------------------------------------------
(* PUT /api/bookings/:id/status *)

\* "Update service statistics" of PUT /:id/status
countedBooking(sv, status) ==
    IF status = "completed"
    THEN [sv EXCEPT !.stats.completedBookings = @ + 1]
    ELSE IF status = "cancelled"
    THEN [sv EXCEPT !.stats.cancelledBookings = @ + 1]
    ELSE sv

PutStatusCode(b, u, status, reason) ==
    IF ~isParticipant(b, u) THEN "403"
    ELSE IF status \notin PutStatuses THEN "400"
    ELSE IF b.status = "disputed" THEN "500"
    ELSE IF status \notin validTransitions(b.status) THEN "400"
    ELSE IF status = "confirmed" /\ u # b.provider THEN "403"
    ELSE IF status = "completed" /\ u # b.provider THEN "403"
    ELSE IF ~SaveValidates(b, status, reason) THEN "400"
    ELSE "200"

PutStatus(u, status, reason) ==
    /\ LET code == PutStatusCode(booking, u, status, reason)
           provider == users[booking.provider]
       IN  /\ resp' = Answer("put_status", u, status, reason, code, -1)
           /\ booking' = IF code = "200"
                         THEN updateStatus(booking, status, u, reason, now)
                         ELSE booking
           \* "Update user reputation"
           /\ users' = IF code = "200" /\ status = "completed"
                       THEN [users EXCEPT ![booking.provider] =
                               updateTrustScore(
                                 [provider EXCEPT
                                    !.reputation.completedServices = @ + 1])]
                       ELSE users
           \* "Update service statistics", and service.save()
           /\ service' = IF code = "200"
                         THEN servicePreSave(countedBooking(service, status))
                         ELSE service
           \* "Emit real-time update"
           /\ sockets' = IF code = "200" THEN emitToBooking(sockets)
                         ELSE sockets
    /\ UNCHANGED <<now, reviewVars>>
    /\ UNCHANGED <<post, pinflight, accounts, sinflight, connectedUsers>>

(* socket event booking_status_update *)

SocketStatusCode(b, u, status, reason) ==
    IF ~isParticipant(b, u) THEN "error"
    ELSE IF ~SaveValidates(b, status, reason) THEN "error"
    ELSE "updated"

SocketStatusUpdate(u, status, reason) ==
    /\ LET code == SocketStatusCode(booking, u, status, reason)
       IN  /\ resp' = Answer("socket_status", u, status, reason, code, -1)
           /\ booking' = IF code = "updated"
                         THEN updateStatus(booking, status, u, reason, now)
                         ELSE booking
           /\ sockets' = IF code = "updated" THEN emitToBooking(sockets)
                         ELSE sockets
    /\ UNCHANGED <<now, reviewVars, users>>
    /\ UNCHANGED <<storeVars, connectedUsers>>

(* DELETE /api/bookings/:id *)

DeleteCode(b, u, reason) ==
    IF ~isParticipant(b, u) THEN "403"
    ELSE IF Len(reason) < 5 \/ Len(reason) > 500 THEN "400"
    ELSE IF b.status \notin {"pending", "confirmed"} THEN "400"
    ELSE IF ~SaveValidates(b, "cancelled", reason) THEN "400"
    ELSE "200"

DeleteBooking(u, reason) ==
    /\ LET code == DeleteCode(booking, u, reason)
           cancellationFee == calculateCancellationFee(booking, now)
           refundAmount == booking.pricing.totalAmount - cancellationFee
           saved == updateStatus(booking, "cancelled", u, reason, now)
       IN  /\ resp' = Answer("delete", u, "cancelled", reason, code,
                             IF code = "200" THEN cancellationFee ELSE -1)
           /\ booking' =
                IF code = "200"
                THEN [saved EXCEPT
                        !.cancellation.refundAmount = refundAmount,
                        !.cancellation.refundStatus =
                            IF refundAmount > 0 THEN "pending"
                            ELSE "not_applicable"]
                ELSE booking
    /\ UNCHANGED <<now, reviewVars, users>>
    /\ UNCHANGED otherVars

-----------------------------------------------------------------------------
(* Messages *)

addMessage(b, senderId) ==
    [b EXCEPT !.messages = Append(@, [sender |-> senderId, isRead |-> FALSE])]

markMessagesAsRead(b, userId) ==
    [b EXCEPT !.messages =
        [i \in DOMAIN @ |->
            IF @[i].sender # userId /\ ~@[i].isRead
            THEN [@[i] EXCEPT !.isRead = TRUE]
            ELSE @[i]]]

\* POST /api/bookings/:id/messages
PostMessageCode(b, u, message) ==
    IF ~isParticipant(b, u) THEN "403"
    ELSE IF Len(message) < 1 \/ Len(message) > 1000 THEN "400"
    ELSE "201"

PostMessage(u, message) ==
    /\ LET code == PostMessageCode(booking, u, message)
       IN  /\ resp' = Answer("post_message", u, "none", "none", code, -1)
           /\ booking' = IF code = "201" THEN addMessage(booking, u) ELSE booking
    /\ UNCHANGED <<now, reviewVars, users>>
    /\ UNCHANGED otherVars

\* socket event booking_message
SocketMessageCode(b, u, message) ==
    IF message = "" THEN "error"
    ELSE IF ~isParticipant(b, u) THEN "error"
    ELSE "received"

SocketMessage(u, message) ==
    /\ LET code == SocketMessageCode(booking, u, message)
       IN  /\ resp' = Answer("socket_message", u, "none", "none", code, -1)
           /\ booking' = IF code = "received" THEN addMessage(booking, u)
                         ELSE booking
           /\ sockets' = IF code = "received" THEN emitToBooking(sockets)
                         ELSE sockets
    /\ UNCHANGED <<now, reviewVars, users>>
    /\ UNCHANGED <<storeVars, connectedUsers>>

\* PUT /api/bookings/:id/messages/read
MarkReadCode(b, u) == IF ~isParticipant(b, u) THEN "403" ELSE "200"

MarkRead(u) ==
    /\ LET code == MarkReadCode(booking, u)
       IN  /\ resp' = Answer("mark_read", u, "none", "none", code, -1)
           /\ booking' = IF code = "200" THEN markMessagesAsRead(booking, u)
                         ELSE booking
    /\ UNCHANGED <<now, reviewVars, users>>
    /\ UNCHANGED otherVars

-----------------------------------------------------------------------------
(* POST /api/reviews.  The handler awaits the database between its checks  *)
(* and Review.create, so it takes two steps: ReviewCheck, from the request *)
(* to the existence query, and ReviewCreate, the insert and what follows.  *)

\* the reviews stored for a (booking, reviewType) pair
ReviewsOf(rs, bookingId, reviewType) ==
    {i \in DOMAIN rs : rs[i].booking = bookingId
                         /\ rs[i].reviewType = reviewType}

\* a Review collection without a unique index
NoUniqueIndex(rs, doc) == TRUE

\* the unique index of reviewSchema.booking: an insert is refused (E11000)
\* when a stored review has the same booking
UniqueBookingIndex(rs, doc) ==
    \A i \in DOMAIN rs : rs[i].booking # doc.booking

\* the _id of the n-th review inserted
ReviewId(n) == <<"r1", "r2", "r3", "r4">>[n]

\* validators, Booking.findById, status, participant and role checks and
\* Review.findOne, in the order of the handler
ReviewCheckCode(b, rs, u, bookingId, reviewType) ==
    LET isCustomer == b.customer = u
        isProvider == b.provider = u
    IN  IF reviewType \notin ReviewTypes THEN "400"
        ELSE IF bookingId # BookingId THEN "404"
        ELSE IF b.status # "completed" THEN "400"
        ELSE IF ~isCustomer /\ ~isProvider THEN "403"
        ELSE IF isCustomer /\ reviewType # "customer_to_provider" THEN "400"
        ELSE IF isProvider /\ reviewType # "provider_to_customer" THEN "400"
        ELSE IF ReviewsOf(rs, bookingId, reviewType) # {} THEN "400"
        ELSE "pending"

ReviewCheck(s, u, bookingId, reviewType, rating) ==
    /\ rinflight[s].phase # "checked"
    /\ LET code == ReviewCheckCode(booking, reviews, u, bookingId, reviewType)
           isCustomer == booking.customer = u
       IN  /\ resp' = Answer("post_review", u, reviewType, "none", code, -1)
           /\ rinflight' =
                IF code = "pending"
                THEN [rinflight EXCEPT ![s] =
                        [phase |-> "checked", user |-> u,
                         booking |-> bookingId, reviewType |-> reviewType,
                         rating |-> rating,
                         reviewer |-> IF isCustomer THEN booking.customer
                                      ELSE booking.provider,
                         reviewee |-> IF isCustomer THEN booking.provider
                                      ELSE booking.customer]]
                ELSE rinflight
    /\ UNCHANGED <<booking, reviews, users, now>>
    /\ UNCHANGED otherVars

\* the reviews Review.find({reviewee, isActive: true,
\* 'moderation.status': 'approved'}) returns
ApprovedReviewsOf(rs, userId) ==
    {i \in DOMAIN rs : /\ rs[i].reviewee = userId
                       /\ rs[i].isActive
                       /\ rs[i].moderation = "approved"}

RECURSIVE SumRatings(_, _)
SumRatings(rs, ids) ==
    IF ids = {} THEN 0
    ELSE LET i == CHOOSE j \in ids : TRUE
         IN  rs[i].rating + SumRatings(rs, ids \ {i})

\* a reputation update that leaves the user as it is
ReviewedUserKept(user, rs, userId) == user

\* "Update user reputation" of POST /api/reviews, before revieweeUser.save()
ReviewedUser(user, rs, userId) ==
    LET userReviews == ApprovedReviewsOf(rs, userId)
        counted == [user EXCEPT !.reputation.totalReviews = @ + 1]
        averaged ==
            IF Cardinality(userReviews) > 0
            THEN [counted EXCEPT !.reputation.averageRating =
                     [num |-> SumRatings(rs, userReviews),
                      den |-> Cardinality(userReviews)]]
            ELSE counted
    IN  updateTrustScore(averaged)

\* Review.create, the review reference on the booking and its save, then the
\* reviewee's reputation and its save; a refused insert or save goes to the
\* error handler, which answers 400
ReviewCreate(s) ==
    /\ rinflight[s].phase = "checked"
    /\ LET req == rinflight[s]
           doc == [booking |-> req.booking, reviewType |-> req.reviewType,
                   reviewer |-> req.reviewer, reviewee |-> req.reviewee,
                   rating |-> req.rating, title |-> "t1", comment |-> "c1",
                   detailedRatings |-> "d1",
                   isActive |-> TRUE, moderation |-> "approved",
                   createdAt |-> now]
           inserted == UniqueBookingIndex(reviews, doc)
           stored == IF inserted THEN Append(reviews, doc) ELSE reviews
           id == ReviewId(Len(reviews) + 1)
           revieweeUser == ReviewedUser(users[req.reviewee], stored,
                                        req.reviewee)
           code == IF inserted /\ UserSaveValidates(revieweeUser)
                   THEN "201" ELSE "400"
       IN  /\ resp' = Answer("post_review", req.user, req.reviewType, "none",
                             code, -1)
           /\ rinflight' = [rinflight EXCEPT ![s] =
                               [phase |-> "answered", user |-> req.user,
                                reviewType |-> req.reviewType, code |-> code]]
           /\ reviews' = stored
           /\ booking' =
                IF ~inserted THEN booking
                ELSE IF req.user = booking.customer
                THEN [booking EXCEPT !.customerReview = id,
                                     !.pricing = PreSaveTotal(@, FALSE)]
                ELSE [booking EXCEPT !.providerReview = id,
                                     !.pricing = PreSaveTotal(@, FALSE)]
           /\ users' = IF code = "201"
                       THEN [users EXCEPT ![req.reviewee] = revieweeUser]
                       ELSE users
           \* booking.service.updateReviewsSummary() ends with a save() of
           \* the service, which runs its pre-save hook
           /\ service' = IF inserted /\ req.user = booking.customer
                         THEN servicePreSave(service)
                         ELSE service
    /\ UNCHANGED now
    /\ UNCHANGED <<post, pinflight, accounts, sinflight, socketVars>>

-----------------------------------------------------------------------------
(* PUT /api/reviews/:id *)

\* the fields a request body may carry; "none" and -1 stand for a field
\* that is absent
EditInputs ==
    [rating : {-1, 4}, title : {"none", "t2"}, comment : {"none", "c2"},
     detailedRatings : {"none", "d2"}]

\* Review.findById: the position of the review with this _id, 0 if none
ReviewIndex(rs, id) ==
    IF \E i \in DOMAIN rs : ReviewId(i) = id
    THEN CHOOSE i \in DOMAIN rs : ReviewId(i) = id
    ELSE 0

\* an edit that sends every accepted edit back to moderation

\* "Reset moderation status if content changed"
ModerationReset(body) == body.comment # "none" \/ body.rating # -1

EditReviewCode(rs, u, id, t) ==
    LET i == ReviewIndex(rs, id)
    IN  IF i = 0 THEN "404"
        ELSE IF rs[i].reviewer # u THEN "403"
        ELSE IF t - rs[i].createdAt > 24 THEN "400"
        ELSE "200"

\* Review.findByIdAndUpdate(id, updateData)
ReviewUpdated(review, body) ==
    [review EXCEPT
       !.rating = IF body.rating # -1 THEN body.rating ELSE @,
       !.title = IF body.title # "none" THEN body.title ELSE @,
       !.comment = IF body.comment # "none" THEN body.comment ELSE @,
       !.detailedRatings =
           IF body.detailedRatings # "none" THEN body.detailedRatings ELSE @,
       !.moderation = IF ModerationReset(body) THEN "pending" ELSE @]

EditReview(u, id, body) ==
    /\ LET code == EditReviewCode(reviews, u, id, now)
           i == ReviewIndex(reviews, id)
       IN  /\ resp' = Answer("put_review", u, id, "none", code, -1)
           /\ reviews' = IF code = "200"
                         THEN [reviews EXCEPT ![i] = ReviewUpdated(@, body)]
                         ELSE reviews
    /\ UNCHANGED <<booking, users, rinflight, now>>
    /\ UNCHANGED otherVars

-----------------------------------------------------------------------------
(* Trust score *)

\* user.updateTrustScore() on the loaded document of user u
UpdateTrustScore(u) ==
    /\ users' = [users EXCEPT ![u] = updateTrustScore(@)]
    /\ resp' = Answer("update_trust_score", u, "none", "none", "none", -1)
    /\ UNCHANGED <<booking, reviewVars, now>>
    /\ UNCHANGED otherVars

-----------------------------------------------------------------------------
(* Time passes *)

Tick ==
    /\ \E t \in Times : t > now /\ now' = t
    /\ UNCHANGED <<booking, resp, reviewVars, users>>
    /\ UNCHANGED otherVars

-----------------------------------------------------------------------------
(* Spec: the status workflow of one booking, every entry point *)

\* the reasons sent with a status: none, or for a cancellation none or a
\* word of the cancellation.reason enum
StatusReasons(status) ==
    IF status = "cancelled" THEN {"", "other"} ELSE {""}

Next ==
    \/ \E u \in Participants, status \in Statuses :
          \E reason \in StatusReasons(status) :
             PutStatus(u, status, reason) /\ Bounded(MaxHistory, MaxMessages)
    \/ \E u \in Participants, status \in Statuses :
          \E reason \in StatusReasons(status) :
             SocketStatusUpdate(u, status, reason)
                /\ Bounded(MaxHistory, MaxMessages)
    \/ \E u \in Participants, reason \in {"", "other"} :
          DeleteBooking(u, reason) /\ Bounded(MaxHistory, MaxMessages)

Spec == Init /\ [][Next]_vars

(* SpecAccess: status, message and cancel requests of every user *)

NextAccess ==
    \/ \E u \in Users, status \in {"confirmed", "cancelled"} :
          PutStatus(u, status, "other") /\ Bounded(MaxHistory, MaxMessages)
    \/ \E u \in Users, status \in {"confirmed", "cancelled"} :
          SocketStatusUpdate(u, status, "other")
             /\ Bounded(MaxHistory, MaxMessages)
    \/ \E u \in Users :
          DeleteBooking(u, "other") /\ Bounded(MaxHistory, MaxMessages)
    \/ \E u \in Users, message \in MessageInputs :
          PostMessage(u, message) /\ Bounded(MaxHistory, MaxMessages)
    \/ \E u \in Users, message \in MessageInputs :
          SocketMessage(u, message) /\ Bounded(MaxHistory, MaxMessages)
    \/ \E u \in Users : MarkRead(u)

SpecAccess == Init /\ [][NextAccess]_vars

(* SpecCancel: cancellation over time *)

InitCancel ==
    /\ \E amount \in {0, 10000, 20000}, time \in {0, 20} :
          booking = InitBooking(amount, time)
    /\ reviews = << >>
    /\ users = [u \in Users |-> NewUser]
    /\ rinflight = [s \in Slots |-> NoReq]
    /\ resp = NoAnswer
    /\ InitOther
    /\ now \in Times

NextCancel ==
    \/ \E u \in Users, reason \in ReasonInputs :
          DeleteBooking(u, reason) /\ Bounded(MaxHistory, MaxMessages)
    \/ PutStatus(UserA, "confirmed", "") /\ Bounded(MaxHistory, MaxMessages)
    \/ Tick

SpecCancel == InitCancel /\ [][NextCancel]_vars

(* SpecReview: reviews of a booking the provider is about to complete *)

\* the booking after the provider confirmed and started it
InProgressBooking ==
    updateStatus(updateStatus(InitBooking(10000, 0),
                              "confirmed", UserA, "", 28),
                 "in_progress", UserA, "", 48)

InitReview ==
    /\ booking = InProgressBooking
    /\ reviews = << >>
    /\ users = [u \in Users |-> NewUser]
    /\ rinflight = [s \in Slots |-> NoReq]
    /\ resp = NoAnswer
    /\ InitOther
    /\ now = 48

NextReview ==
    \/ \E s \in Slots, u \in Users, bookingId \in {BookingId, "b2"},
         reviewType \in ReviewTypes \cup {"peer"}, rating \in Ratings :
          ReviewCheck(s, u, bookingId, reviewType, rating)
    \/ \E s \in Slots : ReviewCreate(s)
    \/ \E u \in Participants :
          PutStatus(u, "completed", "")
             /\ Bounded(MaxReviewHistory, MaxMessages)
    \/ \E u \in Participants :
          SocketStatusUpdate(u, "disputed", "")
             /\ Bounded(MaxReviewHistory, MaxMessages)

SpecReview == InitReview /\ [][NextReview]_vars

(* SpecPricing: bookings of services of every pricing type *)

InitPricing ==
    /\ \E amount \in Amounts, type \in PricingTypes, duration \in Durations :
          booking = BookingCreate(UserB, UserA,
                                  RoutePricing(amount, type, duration), 0)
    /\ reviews = << >>
    /\ users = [u \in Users |-> NewUser]
    /\ rinflight = [s \in Slots |-> NoReq]
    /\ resp = NoAnswer
    /\ InitOther
    /\ now = 18

NextPricing ==
    \/ \E u \in Participants, status \in PutStatuses :
          PutStatus(u, status, "other")
    \/ \E u \in Participants : DeleteBooking(u, "other")
    \/ \E s \in Slots, u \in Participants, reviewType \in ReviewTypes :
          ReviewCheck(s, u, BookingId, reviewType, 5)
    \/ \E s \in Slots : ReviewCreate(s)

SpecPricing == InitPricing /\ [][NextPricing]_vars

(* SpecEdit: a review is posted and edited as time passes *)

NextEdit ==
    \/ PutStatus(UserA, "completed", "")
          /\ Bounded(MaxReviewHistory, MaxMessages)
    \/ \E u \in Participants, reviewType \in ReviewTypes :
          ReviewCheck(1, u, BookingId, reviewType, 5)
    \/ ReviewCreate(1)
    \/ \E u \in Users, id \in {"r1", "r4"}, body \in EditInputs :
          EditReview(u, id, body)
    \/ Tick

SpecEdit == InitReview /\ [][NextEdit]_vars

(* SpecTrust: the trust score of a user over reputation values *)

ReputationInputs ==
    [totalReviews : {0, 1, 10, 50, 60},
     averageRating : {[num |-> 0, den |-> 1], [num |-> 7, den |-> 2],
                      [num |-> 13, den |-> 3], [num |-> 5, den |-> 1]},
     completedServices : {0, 1, 10},
     cancelledServices : {0, 1, 3}]

InitTrust ==
    /\ booking = InitBooking(10000, 0)
    /\ reviews = << >>
    /\ \E reputation \in ReputationInputs :
          users = [u \in Users |->
                      IF u = UserA
                      THEN [NewUser EXCEPT !.reputation = reputation]
                      ELSE NewUser]
    /\ rinflight = [s \in Slots |-> NoReq]
    /\ resp = NoAnswer
    /\ InitOther
    /\ now = 28

NextTrust == \E u \in Users : UpdateTrustScore(u)

SpecTrust == InitTrust /\ [][NextTrust]_vars

-----------------------------------------------------------------------------
(* Claims about the status workflow *)

\* the transition table of the booking state machine, as documented
TransitionTable(status) ==
    CASE status = "pending"     -> {"confirmed", "cancelled"}
      [] status = "confirmed"   -> {"in_progress", "cancelled", "no_show"}
      [] status = "in_progress" -> {"completed", "cancelled"}
      [] OTHER                  -> {}

ErrorCodes == {"400", "403", "404", "500", "error"}

C2_IllegalPutRejected ==
    [][(/\ resp'.op = "put_status"
        /\ resp'.user \in {booking.customer, booking.provider}
        /\ resp'.target \notin TransitionTable(booking.status))
          => (resp'.code \in ErrorCodes /\ booking' = booking)]_vars

\* C2 witness: the provider's PUT pending -> in_progress was answered 400
C2_Witness ==
    /\ resp.op = "put_status" /\ resp.user = booking.provider
    /\ resp.target = "in_progress" /\ resp.code = "400"
    /\ booking.status = "pending"

C4_OnlyParticipantsChange ==
    [][/\ booking' # booking
          => resp'.user \in {booking.customer, booking.provider}
       /\ (resp'.op # "none"
             /\ resp'.user \notin {booking.customer, booking.provider})
          => (resp'.code \in ErrorCodes /\ booking' = booking)]_vars

\* C4 witness: a third user's chat message on a booking that already has
\* messages and a changed status was refused
C4_Witness ==
    /\ resp.op = "socket_message" /\ resp.user = UserC /\ resp.code = "error"
    /\ Len(booking.messages) > 0
    /\ booking.status # "pending"

-----------------------------------------------------------------------------
(* Claims about cancellation *)

\* a DELETE request was accepted in this step
DeleteAccepted ==
    resp'.op = "delete" /\ resp'.code = "200" /\ booking' # booking

\* the fee schedule as documented: free from 24 hours out, a quarter of the
\* total from 2 hours out, half of it below 2 hours
DocumentedFee(h, totalAmount) ==
    IF h >= 24 THEN 0
    ELSE IF h >= 2 THEN (totalAmount * 25) \div 100
    ELSE (totalAmount * 50) \div 100

\* C9 as stated: the fee is 0 when h >= 24, 25% of the total when
\* 2 <= h < 24 and 50% when h < 2, h being the hours from now to the time
\* calculateCancellationFee reads as the booking time.
C9_FeeAsStated ==
    [][DeleteAccepted
          => resp'.fee = DocumentedFee(booking.scheduledDate - now,
                                       booking.pricing.totalAmount)]_vars

\* C9 amended: the fee depends only on h and the total and is 0 when
\* h > 24, 25% of the total when 2 < h <= 24 and 50% when h <= 2.
C9_FeeSchedule ==
    [][DeleteAccepted
          => LET h == booking.scheduledDate - now
                 total == booking.pricing.totalAmount
             IN  /\ h > 24 => resp'.fee = 0
                 /\ (2 < h /\ h <= 24) => resp'.fee * 4 = total
                 /\ h <= 2 => resp'.fee * 2 = total]_vars

\* C9 witness: a cancellation exactly 24 hours before scheduledDate was
\* charged a quarter of a positive total
C9_Witness ==
    /\ resp.op = "delete" /\ resp.code = "200"
    /\ booking.scheduledDate - booking.cancellation.cancelledAt = 24
    /\ booking.pricing.totalAmount > 0
    /\ resp.fee * 4 = booking.pricing.totalAmount

\* C10: on DELETE the fee follows the time left until scheduledDate combined
\* with scheduledTime and refundAmount is the total minus that fee; 20 hours
\* before the scheduled time the refund is 75% of the total, whatever the
\* time of day of the booking.
C10_RefundFollowsScheduledTime ==
    [][DeleteAccepted
          => LET h == booking.scheduledDate + booking.scheduledTime - now
                 total == booking.pricing.totalAmount
                 refund == booking'.cancellation.refundAmount
             IN  /\ refund = total - CancellationPolicy(h, total)
                 /\ h = 20 => refund * 4 = total * 3]_vars

\* C11: a DELETE request of a participant on a pending or confirmed booking
\* with a free-text reason of 5 to 500 characters succeeds: the booking
\* ends cancelled with cancelledAt, cancelledBy, reason, refundAmount and
\* refundStatus recorded and the response carries the fee.
C11_FreeTextCancelSucceeds ==
    [][(/\ resp'.op = "delete" /\ now' = now
        /\ resp'.user \in {booking.customer, booking.provider}
        /\ booking.status \in {"pending", "confirmed"}
        /\ Len(resp'.reason) >= 5 /\ Len(resp'.reason) <= 500)
          => /\ resp'.code = "200" /\ resp'.fee >= 0
             /\ booking'.status = "cancelled"
             /\ booking'.cancellation.cancelledAt = now
             /\ booking'.cancellation.cancelledBy = resp'.user
             /\ booking'.cancellation.reason = resp'.reason
             /\ booking'.cancellation.refundAmount =
                   booking.pricing.totalAmount - resp'.fee
             /\ booking'.cancellation.refundStatus
                   \in {"pending", "not_applicable"}]_vars

-----------------------------------------------------------------------------
(* Claims about reviews *)

\* a creation request received its answer in this step
ReviewAnswered ==
    /\ resp'.op = "post_review" /\ resp'.code # "pending"
    /\ <<resp', rinflight'>> # <<resp, rinflight>>

\* the role-matching review type of a participant
RoleReviewType(b, u) ==
    IF u = b.customer THEN "customer_to_provider" ELSE "provider_to_customer"

\* C5: at most one review exists per (booking, reviewType) pair in every
\* reachable state, also when two creation requests for the pair both
\* passed the existence check before either wrote; a creation request
\* answered while a review of its pair exists is rejected and stores
\* nothing.
C5_OneReviewPerPair ==
    /\ [](\A reviewType \in ReviewTypes :
             Cardinality(ReviewsOf(reviews, BookingId, reviewType)) <= 1)
    /\ [][(ReviewAnswered
             /\ ReviewsOf(reviews, BookingId, resp'.target) # {})
            => (resp'.code \in ErrorCodes /\ reviews' = reviews)]_vars

\* C5 witness: two requests of the customer passed the existence check,
\* the first insert was stored and the second was refused
C5_Witness ==
    /\ \E s, t \in Slots :
          /\ rinflight[s].phase = "answered" /\ rinflight[s].code = "201"
          /\ rinflight[t].phase = "answered" /\ rinflight[t].code = "400"
          /\ rinflight[s].reviewType = rinflight[t].reviewType
          /\ rinflight[s].user = rinflight[t].user
    /\ Len(reviews) = 1

C7_OppositeReviewAccepted ==
    [][(/\ ReviewAnswered
        /\ resp'.code # "404"      \* the request names this booking
        /\ booking.status = "completed"
        /\ resp'.user \in {booking.customer, booking.provider}
        /\ resp'.target = RoleReviewType(booking, resp'.user)
        /\ ReviewsOf(reviews, BookingId, resp'.target) = {}
        /\ Len(reviews) = 1)
          => (resp'.code = "201" /\ Len(reviews') = 2)]_vars

-----------------------------------------------------------------------------
(* Claims about pricing *)

\* C8: the stored total of a booking is the sum of its stored service
\* price, platform fee and taxes, after creation and after every later
\* save; the total the route computed is not what is stored.
C8_TotalIsSum ==
    booking.pricing.totalAmount =
        booking.pricing.servicePrice + booking.pricing.platformFee
            + booking.pricing.taxes

\* C8 witness: 45 minutes of a service at 49.99 an hour; the route rounded
\* the total to 41.71, the booking stores 37.49 + 1.12 + 3.09 = 41.70 and
\* still does after status changes
C8_Witness ==
    /\ RoutePricing(4999, "hourly", 45).totalAmount = 4171
    /\ booking.pricing = [servicePrice |-> 3749, platformFee |-> 112,
                          taxes |-> 309, totalAmount |-> 4170]
    /\ Len(booking.statusHistory) > 1

-----------------------------------------------------------------------------
(* Claims about review edits *)

\* a PUT /api/reviews/:id request for a stored review was answered in this
\* step
EditAnswered ==
    /\ resp'.op = "put_review" /\ now' = now
    /\ ReviewIndex(reviews, resp'.target) # 0

\* C14: a review is edited only by its author and only while its age is at
\* most 24 hours; an edit by another user or after more than 24 hours is
\* rejected and leaves the review unchanged; every accepted edit, whichever
\* of rating, title, comment or detailedRatings it changes, leaves the
\* review's moderation status pending.
C14_EditByAuthorInWindow ==
    [][EditAnswered
          => LET i == ReviewIndex(reviews, resp'.target)
                 editable == /\ resp'.user = reviews[i].reviewer
                             /\ now - reviews[i].createdAt <= 24
             IN  /\ ~editable
                      => (resp'.code \in ErrorCodes /\ reviews' = reviews)
                 /\ reviews'[i] # reviews[i]
                      => (editable /\ reviews'[i].moderation = "pending")]_vars


-----------------------------------------------------------------------------
(* Claims about reputation *)

\* C12: a step that stores a participant's review of a completed booking
\* raises the reviewee's reputation.totalReviews by exactly one and leaves
\* reputation.averageRating at the mean rating of the reviewee's active,
\* approved reviews, the new one included, in both review directions.
C12_ReputationFollowsReview ==
    [][Len(reviews') = Len(reviews) + 1
          => LET review == reviews'[Len(reviews')]
                 before == users[review.reviewee].reputation
                 after == users'[review.reviewee].reputation
                 counted == ApprovedReviewsOf(reviews', review.reviewee)
             IN  /\ after.totalReviews = before.totalReviews + 1
                 /\ after.averageRating.num * Cardinality(counted)
                      = SumRatings(reviews', counted)
                          * after.averageRating.den]_vars

\* the trust score as documented: completionRate has its denominator
\* floored at 1
DocumentedTrustScore(rep) ==
    LET c == rep.completedServices
        served == IF c + rep.cancelledServices < 1 THEN 1
                  ELSE c + rep.cancelledServices
        bonus == IF rep.totalReviews < 50 THEN rep.totalReviews ELSE 50
        d == 5 * rep.averageRating.den * served
        n == 100 * rep.averageRating.num * c
               + bonus * rep.averageRating.den * served
        rounded == (2 * n + d) \div (2 * d)
    IN  IF rep.totalReviews = 0 THEN 0
        ELSE IF rounded < 100 THEN rounded ELSE 100

\* C13: calculateTrustScore is 0 without reviews and otherwise
\* round((averageRating / 5) * 100 * completionRate
\*       + min(totalReviews / 50, 1) * 10) capped at 100, with
\* completionRate = completed / max(completed + cancelled, 1); the result
\* is an integer in 0..100 for every non-negative reputation.
C13_TrustScoreAsDocumented ==
    resp.op = "update_trust_score"
       => /\ users[resp.user].trustScore
               = DocumentedTrustScore(users[resp.user].reputation)
          /\ users[resp.user].trustScore \in 0..100

-----------------------------------------------------------------------------
(* Community posts: likes and event attendance.  A request loads the post  *)
(* (Community.findById) and saves it in a later step, so two requests can  *)
(* hold the same loaded post.  The version key __v is kept as a flag of    *)
(* each loaded post: stale once another save has incremented __v.          *)

MaxLikes == 2   \* entries kept in a post's likes and in its attendees

PostId == "p1"
LikeActions == {"like", "unlike"}
LikeRoutes == {"http", "socket"}
AttendStatuses == {"going", "maybe"}
Likers == {UserA, UserB}

HasLike(likes, u) == \E i \in 1..Len(likes) : likes[i] = u

CountOf(seq, x) == Cardinality({i \in 1..Len(seq) : seq[i] = x})

AttendeeUsers(attendees) == [i \in 1..Len(attendees) |-> attendees[i].user]

\* attendees.find(attendee => attendee.user === userId): the first match
FirstAttendee(attendees, u) ==
    CHOOSE i \in 1..Len(attendees) :
        /\ attendees[i].user = u
        /\ \A j \in 1..(i - 1) : attendees[j].user # u

\* communitySchema.pre('save'): expiry, pin, feature, then engagement rate
\* (no comments, no shares; the posts have 4 views, so the rate is a whole
\* number of percent)
postPreSave(p, t) ==
    LET expired == p.expiresAt # -1 /\ t > p.expiresAt
    IN  [p EXCEPT
           !.isExpired = IF expired THEN TRUE ELSE @,
           !.status = IF expired THEN "archived" ELSE @,
           !.isPinned = IF p.pinnedUntil # -1 /\ t > p.pinnedUntil
                        THEN FALSE ELSE @,
           !.isFeatured = IF p.featuredUntil # -1 /\ t > p.featuredUntil
                          THEN FALSE ELSE @,
           !.engagementRate = IF p.views > 0
                              THEN (100 * Len(p.likes)) \div p.views
                              ELSE @]

\* an addLike that does not look for an existing like
addLikeAlways(p, u, t) == postPreSave([p EXCEPT !.likes = Append(@, u)], t)

\* communitySchema.methods.addLike: the document after the call
addLike(p, u, t) ==
    IF HasLike(p.likes, u) THEN p
    ELSE postPreSave([p EXCEPT !.likes = Append(@, u)], t)

\* communitySchema.methods.removeLike: the document after the call
removeLike(p, u, t) ==
    postPreSave([p EXCEPT !.likes = SelectSeq(@, LAMBDA x : x # u)], t)

\* communitySchema.methods.addAttendee on an event: the document after the call
addAttendee(p, u, status, t) ==
    IF HasLike(AttendeeUsers(p.attendees), u)
    THEN postPreSave([p EXCEPT
            !.attendees[FirstAttendee(p.attendees, u)].status = status], t)
    ELSE postPreSave([p EXCEPT
            !.attendees = Append(@, [user |-> u, status |-> status])], t)

\* save() writes the paths the hooks have modified in the loaded document
HookPaths(stored, loaded, doc) ==
    [stored EXCEPT
       !.isExpired = IF doc.isExpired # loaded.isExpired
                     THEN doc.isExpired ELSE @,
       !.status = IF doc.status # loaded.status THEN doc.status ELSE @,
       !.isPinned = IF doc.isPinned # loaded.isPinned
                    THEN doc.isPinned ELSE @,
       !.isFeatured = IF doc.isFeatured # loaded.isFeatured
                      THEN doc.isFeatured ELSE @,
       !.engagementRate = IF doc.engagementRate # loaded.engagementRate
                          THEN doc.engagementRate ELSE @]

\* a save that increments __v makes every other loaded post stale
Outdated(s) ==
    [x \in Slots |->
        IF x = s THEN NoReq
        ELSE IF pinflight[x].phase = "loaded"
             THEN [pinflight[x] EXCEPT !.stale = TRUE]
             ELSE pinflight[x]]

Loaded(s, op, route, u, status) ==
    [pinflight EXCEPT ![s] =
        [phase |-> "loaded", op |-> op, route |-> route, user |-> u,
         status |-> status, doc |-> post, stale |-> FALSE]]

\* a request takes the first free slot
FreeSlot(s) ==
    /\ pinflight[s].phase = "idle"
    /\ \A x \in Slots : x < s => pinflight[x].phase # "idle"

PostBounded ==
    /\ Len(post'.likes) <= MaxLikes
    /\ Len(post'.attendees) <= MaxLikes

\* POST /api/community/:id/like and the socket event community_post_like,
\* up to the call of addLike or removeLike
LikeLoad(s, u, action, route) ==
    /\ FreeSlot(s)
    /\ IF route = "http" /\ post.status # "active"
       THEN /\ resp' = Answer("post_like", u, PostId, action, "404", -1)
            /\ UNCHANGED pinflight
       ELSE IF action = "like" /\ HasLike(post.likes, u)
       THEN /\ resp' = Answer("post_like", u, PostId, action, "200", -1)
            /\ UNCHANGED pinflight
       ELSE /\ pinflight' = Loaded(s, action, route, u, "none")
            /\ UNCHANGED resp
    /\ UNCHANGED <<post, accounts, serviceVars, bookingVars, now, socketVars>>

\* the save() of addLike ($push) or of removeLike ($set of the array, which
\* is versioned, when the filter has removed an entry)
LikeSave(s) ==
    LET r == pinflight[s]
        doc == IF r.op = "like" THEN addLike(r.doc, r.user, now)
               ELSE removeLike(r.doc, r.user, now)
        removed == doc.likes # r.doc.likes
    IN  /\ r.phase = "loaded"
        /\ r.op \in LikeActions
        /\ IF r.op = "like"
           THEN /\ post' = HookPaths([post EXCEPT !.likes = Append(@, r.user)],
                                     r.doc, doc)
                /\ pinflight' = Outdated(s)
                /\ resp' = Answer("post_like", r.user, PostId, r.op, "200", -1)
           ELSE IF removed /\ r.stale
           THEN /\ UNCHANGED post
                /\ pinflight' = [pinflight EXCEPT ![s] = NoReq]
                /\ resp' = Answer("post_like", r.user, PostId, r.op, "500", -1)
           ELSE IF removed
           THEN /\ post' = HookPaths([post EXCEPT !.likes = doc.likes],
                                     r.doc, doc)
                /\ pinflight' = Outdated(s)
                /\ resp' = Answer("post_like", r.user, PostId, r.op, "200", -1)
           ELSE /\ post' = HookPaths(post, r.doc, doc)
                /\ pinflight' = [pinflight EXCEPT ![s] = NoReq]
                /\ resp' = Answer("post_like", r.user, PostId, r.op, "200", -1)
        /\ UNCHANGED <<accounts, serviceVars, bookingVars, now, socketVars>>

\* POST /api/community/:id/attend up to the call of addAttendee (the post
\* has no registration deadline)
AttendLoad(s, u, status) ==
    /\ FreeSlot(s)
    /\ IF post.status # "active"
       THEN /\ resp' = Answer("post_attend", u, PostId, status, "404", -1)
            /\ UNCHANGED pinflight
       ELSE IF post.type # "event"
       THEN /\ resp' = Answer("post_attend", u, PostId, status, "400", -1)
            /\ UNCHANGED pinflight
       ELSE /\ pinflight' = Loaded(s, "attend", "http", u, status)
            /\ UNCHANGED resp
    /\ UNCHANGED <<post, accounts, serviceVars, bookingVars, now, socketVars>>

\* the save() of addAttendee: a $push for a new attendee, a versioned $set of
\* attendees.i.status for an existing one
AttendSave(s) ==
    LET r == pinflight[s]
        doc == addAttendee(r.doc, r.user, r.status, now)
        existing == HasLike(AttendeeUsers(r.doc.attendees), r.user)
    IN  /\ r.phase = "loaded"
        /\ r.op = "attend"
        /\ IF existing /\ r.stale
           THEN /\ UNCHANGED post
                /\ pinflight' = [pinflight EXCEPT ![s] = NoReq]
                /\ resp' = Answer("post_attend", r.user, PostId, r.status,
                                  "500", -1)
           ELSE IF existing
           THEN /\ post' = HookPaths([post EXCEPT !.attendees = doc.attendees],
                                     r.doc, doc)
                /\ pinflight' = [pinflight EXCEPT ![s] = NoReq]
                /\ resp' = Answer("post_attend", r.user, PostId, r.status,
                                  "200", -1)
           ELSE /\ post' = HookPaths(
                             [post EXCEPT !.attendees =
                                Append(@, [user |-> r.user,
                                           status |-> r.status])],
                             r.doc, doc)
                /\ pinflight' = Outdated(s)
                /\ resp' = Answer("post_attend", r.user, PostId, r.status,
                                  "200", -1)
        /\ UNCHANGED <<accounts, serviceVars, bookingVars, now, socketVars>>

PostTypes == {"event", "post"}

\* SpecCommunity: likes of A over both routes and attendance of B, two
\* requests at a time, before the post expires
InitCommunity ==
    /\ booking = InitBooking(10000, 0)
    /\ reviews = << >>
    /\ users = [u \in Users |-> NewUser]
    /\ rinflight = [s \in Slots |-> NoReq]
    /\ resp = NoAnswer
    /\ \E type \in PostTypes : post = NewPost(type, 72, 47, 4)
    /\ pinflight = [s \in Slots |-> NoReq]
    /\ accounts = InitAccounts
    /\ service = ServiceCreate(UserA, << FALSE >>)
    /\ sinflight = NoReq
    /\ InitSockets
    /\ now = 46

NextCommunity ==
    \/ \E s \in Slots, action \in LikeActions, route \in LikeRoutes :
          LikeLoad(s, UserA, action, route)
    \/ \E s \in Slots : LikeSave(s) /\ PostBounded
    \/ \E s \in Slots, status \in AttendStatuses :
          AttendLoad(s, UserB, status)
    \/ \E s \in Slots : AttendSave(s) /\ PostBounded

SpecCommunity == InitCommunity /\ [][NextCommunity]_vars

\* SpecLikes: likes over both routes, one request after the other, while the
\* pin and the post expire
NextLikes ==
    \/ \E u \in Likers, action \in LikeActions, route \in LikeRoutes :
          LikeLoad(1, u, action, route)
    \/ \E s \in Slots : LikeSave(s) /\ PostBounded
    \/ Tick

SpecLikes == InitCommunity /\ [][NextLikes]_vars

\* C15: the likes, the bookmarks and the attendees of a post hold at most one
\* entry per user, whatever the interleaving of like, unlike and attend
\* requests over HTTP and over the socket.
C15_OneEntryPerUser ==
    /\ \A u \in Users : CountOf(post.likes, u) <= 1
    /\ \A u \in Users : CountOf(post.bookmarks, u) <= 1
    /\ \A u \in Users : CountOf(AttendeeUsers(post.attendees), u) <= 1

\* C16 as stated: addLike(u) twice leaves exactly one entry of u and the list
\* addLike(u) once leaves; removeLike(u) of a user without a like leaves the
\* stored post as it was.
C16_LikeTwiceUnlikeNoOp ==
    \A u \in Likers :
        LET once == addLike(post, u, now)
            twice == addLike(once, u, now)
        IN  /\ twice.likes = once.likes
            /\ CountOf(twice.likes, u) = 1
            /\ ~HasLike(post.likes, u) => removeLike(post, u, now) = post

\* C16 amended: addLike(u) twice leaves the list addLike(u) once leaves, with
\* one entry more than before exactly when u had none; removeLike(u) of a
\* user without a like leaves the likes as they were and changes the post
\* only as the pre-save hooks do.
C16_LikeTwiceUnlikeKeepsLikes ==
    \A u \in Likers :
        LET once == addLike(post, u, now)
            twice == addLike(once, u, now)
        IN  /\ twice.likes = once.likes
            /\ HasLike(once.likes, u)
            /\ CountOf(once.likes, u)
                 = IF HasLike(post.likes, u) THEN CountOf(post.likes, u) ELSE 1
            /\ ~HasLike(post.likes, u)
                 => /\ removeLike(post, u, now).likes = post.likes
                    /\ removeLike(post, u, now) = postPreSave(post, now)

\* an unlike of a user without a like has been saved and has archived the
\* expired post, which still holds the like of the other user
C16_Witness ==
    /\ resp.op = "post_like"
    /\ resp.reason = "unlike"
    /\ resp.code = "200"
    /\ ~HasLike(post.likes, resp.user)
    /\ Len(post.likes) = 1
    /\ post.status = "archived"

-----------------------------------------------------------------------------
(* Accounts: registration and deletion.  Date.now() is in milliseconds and *)
(* a deletion takes longer than that, so every deletion has a stamp of its *)
(* own: the number of deletions so far.                                    *)

MaxAccounts == 3    \* documents kept in the User collection
MaxDeletions == 3   \* deletions followed

AccountId(i) == ToString(i)
AccountIds == {AccountId(i) : i \in 1..(MaxAccounts + 2)}

RECURSIVE Deletions(_)
Deletions(as) ==
    IF as = << >> THEN 0
    ELSE Len(as[1].email.stamps) + Deletions(Tail(as))

\* an email rewrite that keeps the address as it is
TombstoneKept(email, stamp) == email

\* `deleted_${Date.now()}_${user.email}`
Tombstone(email, stamp) == [email EXCEPT !.stamps = << stamp >> \o @]

\* User.findOne({ email })
AccountsWith(as, email) == {i \in 1..Len(as) : as[i].email = email}

\* user.isActive = false; user.email = ...; user.save()
Deactivated(as, i) ==
    [as EXCEPT ![i] = [email |-> Tombstone(@.email, Deletions(as) + 1),
                       isActive |-> FALSE,
                       isSuspended |-> @.isSuspended]]

\* POST /api/auth/register
RegisterCode(as, email) ==
    IF AccountsWith(as, email) # {} THEN "400" ELSE "201"

Register(addr) ==
    LET code == RegisterCode(accounts, Email(addr))
    IN  /\ accounts' = IF code = "201"
                       THEN Append(accounts, NewAccount(Email(addr)))
                       ELSE accounts
        /\ resp' = Answer("register", "none", addr, "none", code, -1)
        /\ UNCHANGED <<communityVars, serviceVars, bookingVars, now, socketVars>>

\* a protect that looks at the token only
protectAnyToken(as, id) ==
    IF \A i \in 1..Len(as) : AccountId(i) # id THEN "401" ELSE "next"

\* protect, for a request with an unexpired token of the user with this id:
\* the status it answers with, or "next" when it hands on to the handler
protect(as, id) ==
    IF \A i \in 1..Len(as) : AccountId(i) # id THEN "401"
    ELSE LET user == as[CHOOSE i \in 1..Len(as) : AccountId(i) = id]
         IN  IF ~user.isActive THEN "401"
             ELSE IF user.isSuspended THEN "403"
             ELSE "next"

\* DELETE /api/auth/delete-account of the account with id i
DeleteAccountCode(as, id, passwordMatches) ==
    IF protect(as, id) # "next" THEN protect(as, id)
    ELSE IF ~passwordMatches THEN "401"
    ELSE "200"

DeleteAccount(id, passwordMatches) ==
    LET code == DeleteAccountCode(accounts, id, passwordMatches)
    IN  /\ accounts' =
              IF code = "200"
              THEN Deactivated(accounts,
                     CHOOSE i \in 1..Len(accounts) : AccountId(i) = id)
              ELSE accounts
        /\ resp' = Answer("delete_account", "none", id, "none", code, -1)
        /\ UNCHANGED <<communityVars, serviceVars, bookingVars, now, socketVars>>

\* DELETE /api/users/:id, with Service.updateMany({provider}, {isActive: false})
AdminDeleteCode(as, id, isAdmin) ==
    IF ~isAdmin THEN "403"
    ELSE IF \A i \in 1..Len(as) : AccountId(i) # id THEN "404"
    ELSE "200"

AdminDeleteUser(id, isAdmin) ==
    LET code == AdminDeleteCode(accounts, id, isAdmin)
    IN  /\ accounts' =
              IF code = "200"
              THEN Deactivated(accounts,
                     CHOOSE i \in 1..Len(accounts) : AccountId(i) = id)
              ELSE accounts
        /\ service' =
              IF code = "200" /\ id = AccountId(ProviderAccount)
              THEN [service EXCEPT !.isActive = FALSE]
              ELSE service
        /\ resp' = Answer("admin_delete_user", "none", id, "none", code, -1)
        /\ UNCHANGED <<communityVars, sinflight, bookingVars, now, socketVars>>

AccountsBounded ==
    /\ Len(accounts') <= MaxAccounts
    /\ Deletions(accounts') <= MaxDeletions

NextAccounts ==
    \/ \E addr \in Emails : Register(addr) /\ AccountsBounded
    \/ \E id \in AccountIds, passwordMatches \in BOOLEAN :
          DeleteAccount(id, passwordMatches) /\ AccountsBounded
    \/ \E id \in AccountIds, isAdmin \in BOOLEAN :
          AdminDeleteUser(id, isAdmin) /\ AccountsBounded

SpecAccounts == Init /\ [][NextAccounts]_vars

\* a deletion has been accepted in this step
DeletionAccepted ==
    /\ resp'.op \in {"delete_account", "admin_delete_user"}
    /\ resp'.code = "200"

\* C17: an accepted deletion of a user removes no document: it sets isActive
\* to false on the user's document and rewrites its email to a tombstone that
\* differs from the email it had; afterwards no document is found by that
\* email, and a registration with it is accepted.
C17_DeletionKeepsDocument ==
    [][DeletionAccepted
        => \E i \in 1..Len(accounts) :
              /\ AccountId(i) = resp'.target
              /\ Len(accounts') = Len(accounts)
              /\ \A j \in 1..Len(accounts) : j # i => accounts'[j] = accounts[j]
              /\ ~accounts'[i].isActive
              /\ accounts'[i].email # accounts[i].email
              /\ accounts'[i].email.addr = accounts[i].email.addr
              /\ AccountsWith(accounts', accounts[i].email) = {}
              /\ RegisterCode(accounts', accounts[i].email) = "201"]_vars

\* the address of a deleted account has been registered again: the collection
\* holds the tombstoned document and the new active one
C17_Witness ==
    /\ resp.op = "register"
    /\ resp.code = "201"
    /\ \E i, j \in 1..Len(accounts) :
          /\ ~accounts[i].isActive
          /\ accounts[i].email.stamps # << >>
          /\ accounts[i].email.addr = resp.target
          /\ accounts[j].isActive
          /\ accounts[j].email = Email(resp.target)

-----------------------------------------------------------------------------
(* Services: creation, update, pause and soft deletion.  DELETE counts the *)
(* active bookings and saves in a later step.                              *)

ServiceId == "s1"
ActiveStatuses == {"pending", "confirmed", "in_progress"}

\* the isPrimary flags of the images of a request body
ImageInputs ==
    {<< >>, << FALSE >>, << TRUE >>, << FALSE, FALSE >>, << TRUE, FALSE >>,
     << FALSE, TRUE >>, << TRUE, TRUE >>}

\* protect: the account of the user is active (C has an account that is
\* never deleted)
Authenticated(u) ==
    IF u = UserA THEN protect(accounts, AccountId(1)) = "next"
    ELSE IF u = UserB THEN protect(accounts, AccountId(2)) = "next"
    ELSE TRUE

\* Booking.countDocuments({ service, status: { $in: [...] } })
activeBookings(b) == IF b.status \in ActiveStatuses THEN 1 ELSE 0

\* the dates of the requests: the hour the booking starts at, its calendar
\* day and the weekday of that day
DateInputs ==
    {[time |-> 48, day |-> 2, weekday |-> "tuesday"],
     [time |-> 168, day |-> 7, weekday |-> "sunday"],
     [time |-> 192, day |-> 8, weekday |-> "monday"],
     [time |-> 216, day |-> 9, weekday |-> "tuesday"],
     [time |-> 360, day |-> 15, weekday |-> "monday"]}

\* the availability a service is stored with: a weekly schedule and dated
\* exceptions
AvailabilityInputs ==
    {WeekSchedule,
     [WeekSchedule EXCEPT !.exceptions = << [date |-> 8, available |-> FALSE] >>],
     [WeekSchedule EXCEPT !.exceptions = << [date |-> 15, available |-> TRUE] >>],
     [WeekSchedule EXCEPT !.schedule = << >>]}

\* what isAvailable would answer if its weekday were computed: "true" when
\* the schedule has an available entry for the weekday of the date and no
\* exception marks the day of the date unavailable
ScheduledAvailable(sv, date) ==
    IF ~sv.isActive \/ sv.isPaused THEN "false"
    ELSE IF ~\E i \in 1..Len(sv.availability.schedule) :
                /\ sv.availability.schedule[i].day = date.weekday
                /\ sv.availability.schedule[i].available
    THEN "false"
    ELSE IF \E i \in 1..Len(sv.availability.exceptions) :
                /\ sv.availability.exceptions[i].date = date.day
                /\ ~sv.availability.exceptions[i].available
    THEN "false"
    ELSE "true"

\* serviceSchema.methods.isAvailable: requestDate is a Date, which has no
\* method toLocaleLowerCase, so the call in the second statement throws a
\* TypeError before the schedule is looked at
isAvailable(sv, date) ==
    IF ~sv.isActive \/ sv.isPaused THEN "false"
    ELSE "TypeError"

\* the fields of the request body that Booking.create takes over from
\* ...req.body: status and statusHistory ("none" and << >> when not sent)
BodyInputs ==
    {[status |-> "none", statusHistory |-> << >>],
     [status |-> "completed", statusHistory |-> << >>],
     [status |-> "finished", statusHistory |-> << >>],
     [status |-> "none",
      statusHistory |-> << [status |-> "completed", changedBy |-> UserA,
                            reason |-> "done"] >>]}

PlainBody == [status |-> "none", statusHistory |-> << >>]

\* Booking.create(bookingData) with bookingData = {...req.body, customer,
\* provider, pricing}: status and statusHistory come from the body, the
\* isNew hook pushes its entry behind the entries of the body
BookingCreateFrom(body, customer, provider, pricing, time) ==
    LET status == IF body.status = "none" THEN "pending" ELSE body.status
    IN  [BookingCreate(customer, provider, pricing, time) EXCEPT
           !.status = status,
           !.statusHistory =
               body.statusHistory
                 \o << [status |-> status, changedBy |-> customer,
                        reason |-> "Booking created"] >>]

\* POST /api/bookings
CreateBookingCode(sv, u, date, body, t) ==
    IF ~sv.isActive \/ sv.isPaused THEN "400"
    ELSE IF u = sv.provider THEN "400"
    ELSE IF date.time < t + 24 THEN "400"
    ELSE IF isAvailable(sv, date) = "TypeError" THEN "500"
    ELSE IF isAvailable(sv, date) = "false" THEN "400"
    ELSE IF body.status \notin Statuses \cup {"none"} THEN "400"
    ELSE "201"

CreateBooking(u, date, body) ==
    LET code == CreateBookingCode(service, u, date, body, now)
    IN  /\ Authenticated(u)
        /\ resp' = Answer("post_booking", u, ServiceId, "none", code, -1)
        /\ booking' = IF code = "201"
                      THEN BookingCreateFrom(body, u, service.provider,
                                             RoutePricing(10000, "fixed", 60),
                                             0)
                      ELSE booking
        /\ UNCHANGED <<communityVars, accounts, serviceVars, reviewVars,
                       users, now, socketVars>>

\* DELETE /api/services/:id up to Booking.countDocuments
DeleteServiceCode(sv, b, u) ==
    IF u # sv.provider THEN "403"
    ELSE IF activeBookings(b) > 0 THEN "400"
    ELSE "counted"

DeleteServiceCheck(u) ==
    LET code == DeleteServiceCode(service, booking, u)
    IN  /\ Authenticated(u)
        /\ sinflight.phase = "idle"
        /\ IF code = "counted"
           THEN /\ sinflight' = [phase |-> "counted", user |-> u,
                                 doc |-> service]
                /\ UNCHANGED resp
           ELSE /\ resp' = Answer("delete_service", u, ServiceId, "none",
                                  code, -1)
                /\ UNCHANGED sinflight
        /\ UNCHANGED <<communityVars, accounts, service, bookingVars, now, socketVars>>

\* service.isActive = false; service.save(): the write of isActive and, when
\* the hook has marked the first image of the loaded service, of
\* images.0.isPrimary
DeleteServiceSave ==
    LET doc == servicePreSave([sinflight.doc EXCEPT !.isActive = FALSE])
        marked == doc.images # sinflight.doc.images
    IN  /\ sinflight.phase = "counted"
        /\ service' =
              [service EXCEPT
                 !.isActive = FALSE,
                 !.images = IF ~marked THEN @
                            ELSE IF Len(@) = 0 THEN << TRUE >>
                            ELSE [@ EXCEPT ![1] = TRUE]]
        /\ sinflight' = NoReq
        /\ resp' = Answer("delete_service", sinflight.user, ServiceId, "none",
                          "200", -1)
        /\ UNCHANGED <<communityVars, accounts, bookingVars, now, socketVars>>

\* PUT /api/services/:id with images in the body: Service.findByIdAndUpdate
UpdateService(u, images) ==
    LET code == IF u # service.provider THEN "403" ELSE "200"
    IN  /\ Authenticated(u)
        /\ service' = IF code = "200"
                      THEN [service EXCEPT !.images = images]
                      ELSE service
        /\ resp' = Answer("put_service", u, ServiceId, "none", code, -1)
        /\ UNCHANGED <<communityVars, accounts, sinflight, bookingVars, now, socketVars>>

\* PUT /api/services/:id/pause: service.isPaused = isPaused; service.save()
PauseService(u, isPaused) ==
    LET code == IF u # service.provider THEN "403" ELSE "200"
    IN  /\ Authenticated(u)
        /\ service' = IF code = "200"
                      THEN servicePreSave([service EXCEPT
                                              !.isPaused = isPaused])
                      ELSE service
        /\ resp' = Answer("pause_service", u, ServiceId, "none", code, -1)
        /\ UNCHANGED <<communityVars, accounts, sinflight, bookingVars, now, socketVars>>

\* SpecService: the service of A and its booking: status changes, service
\* deletion, booking requests and the deletion of users by an admin
NextService ==
    \/ \E u \in Participants, status \in Statuses :
          \E reason \in StatusReasons(status) :
              /\ Authenticated(u)
              /\ PutStatus(u, status, reason)
              /\ Bounded(MaxHistory, 0)
    \/ \E u \in Participants, status \in Statuses :
          \E reason \in StatusReasons(status) :
              SocketStatusUpdate(u, status, reason) /\ Bounded(MaxHistory, 0)
    \/ \E u \in Participants, date \in DateInputs :
          CreateBooking(u, date, PlainBody)
    \/ \E u \in Users : DeleteServiceCheck(u)
    \/ DeleteServiceSave
    \/ \E isAdmin \in BOOLEAN :
          AdminDeleteUser(AccountId(ProviderAccount), isAdmin)
            /\ AccountsBounded

SpecService == Init /\ [][NextService]_vars

InitImages ==
    /\ booking = InitBooking(10000, 0)
    /\ reviews = << >>
    /\ users = [u \in Users |-> NewUser]
    /\ rinflight = [s \in Slots |-> NoReq]
    /\ resp = NoAnswer
    /\ post = NewPost("event", 72, 47, 4)
    /\ pinflight = [s \in Slots |-> NoReq]
    /\ accounts = InitAccounts
    /\ \E images \in ImageInputs : service = ServiceCreate(UserA, images)
    /\ sinflight = NoReq
    /\ InitSockets
    /\ now = 28

NextImages ==
    \/ \E u \in Users, images \in ImageInputs : UpdateService(u, images)
    \/ \E u \in Users, isPaused \in BOOLEAN : PauseService(u, isPaused)
    \/ \E u \in Users : DeleteBooking(u, "other") /\ Bounded(MaxHistory, 0)
    \/ \E u \in Users : DeleteServiceCheck(u)
    \/ DeleteServiceSave

SpecImages == InitImages /\ [][NextImages]_vars

\* C19: a stored service with at least one image has exactly one image marked
\* isPrimary, after POST /api/services and after every PUT /api/services/:id.
C19_ExactlyOnePrimary ==
    Len(service.images) > 0
        => Cardinality({i \in 1..Len(service.images) : service.images[i]}) = 1

-----------------------------------------------------------------------------
(* The status history of a booking *)

\* the entry the creation hook pushes
CreatedEntry(b) ==
    [status |-> "pending", changedBy |-> b.customer,
     reason |-> "Booking created"]

-----------------------------------------------------------------------------
(* SpecStamps: the status workflow of one booking over time, every entry   *)
(* point, both participants                                                *)

NextStamps ==
    \/ \E u \in Participants, status \in {"confirmed", "in_progress",
                                          "completed", "cancelled"} :
          \E reason \in StatusReasons(status) :
             PutStatus(u, status, reason) /\ Bounded(MaxHistory, 0)
    \/ \E u \in Participants, status \in {"pending", "completed",
                                          "cancelled"} :
          SocketStatusUpdate(u, status, "emergency") /\ Bounded(MaxHistory, 0)
    \/ \E u \in Participants : DeleteBooking(u, "other") /\ Bounded(MaxHistory, 0)
    \/ Tick /\ now' \in {38, 46}

SpecStamps == Init /\ [][NextStamps]_vars

-----------------------------------------------------------------------------
(* SpecAvailability: booking requests for services of any availability,    *)
(* active or not, paused or not                                            *)

InitAvailability ==
    /\ booking = InitBooking(10000, 0)
    /\ reviews = << >>
    /\ users = [u \in Users |-> NewUser]
    /\ rinflight = [s \in Slots |-> NoReq]
    /\ resp = NoAnswer
    /\ post = NewPost("event", 72, 47, 4)
    /\ pinflight = [s \in Slots |-> NoReq]
    /\ accounts = InitAccounts
    /\ \E availability \in AvailabilityInputs, isActive \in BOOLEAN :
          service = [ServiceCreate(UserA, << >>) EXCEPT
                       !.availability = availability,
                       !.isActive = isActive]
    /\ sinflight = NoReq
    /\ InitSockets
    /\ now = 28

NextAvailability ==
    \/ \E u \in Users, date \in DateInputs, body \in BodyInputs :
          CreateBooking(u, date, body)
    \/ \E u \in Users, isPaused \in BOOLEAN : PauseService(u, isPaused)

SpecAvailability == InitAvailability /\ [][NextAvailability]_vars

\* C22: isAvailable answers with a boolean for every service and date: false
\* for an inactive or paused service, otherwise true exactly when the weekly
\* schedule has an available entry for the weekday of the date and no dated
\* exception marks that day unavailable.
C22_AvailableAsScheduled ==
    \A date \in DateInputs :
        /\ isAvailable(service, date) \in {"true", "false"}
        /\ isAvailable(service, date) = ScheduledAvailable(service, date)

-----------------------------------------------------------------------------
(* The writes of POST /api/reviews *)

\* the booking holds the reference to the review stored last, on the side of
\* the requester
ReferenceSaved(req) ==
    IF req.user = booking.customer
    THEN booking'.customerReview = ReviewId(Len(reviews'))
    ELSE booking'.providerReview = ReviewId(Len(reviews'))

\* C23: the writes of a review creation are not rolled back.  A request that
\* is answered 201 has stored the review, the reference on the booking and
\* the reviewee's reputation.  A request that is answered with an error has
\* either stored nothing, or it has stored the review, which stays, while the
\* reviewee's reputation is as it was.
C23_NoRollback ==
    [][\A s \in Slots :
          (rinflight[s].phase = "checked" /\ rinflight'[s].phase = "answered")
            => LET req == rinflight[s]
                   written == /\ Len(reviews') = Len(reviews) + 1
                              /\ SubSeq(reviews', 1, Len(reviews)) = reviews
                              /\ reviews'[Len(reviews')].reviewee = req.reviewee
                              /\ ReferenceSaved(req)
               IN  /\ resp'.code = "201"
                     => /\ written
                        /\ users'[req.reviewee].reputation.totalReviews
                             = users[req.reviewee].reputation.totalReviews + 1
                   /\ resp'.code # "201"
                     => /\ users' = users
                        /\ \/ reviews' = reviews /\ booking' = booking
                           \/ written]_vars

\* a review request has been answered with an error, and its review and the
\* reference on the booking are stored while the reviewee has no review
\* counted
C23_Witness ==
    /\ resp.op = "post_review"
    /\ resp.code = "400"
    /\ Len(reviews) = 1
    /\ reviews[1].reviewer = resp.user
    /\ booking.providerReview = ReviewId(1)
    /\ users[reviews[1].reviewee].reputation.totalReviews = 0

-----------------------------------------------------------------------------
(* Socket connections: the registry and the booking room *)

\* io.on('connection'): a socket opens, authenticated as user u
Connection(s, u) ==
    /\ ~sockets[s].open
    /\ sockets' = [sockets EXCEPT ![s] =
                      [open |-> TRUE, userId |-> u, rooms |-> {},
                       received |-> FALSE]]
    /\ UNCHANGED <<connectedUsers, resp, now, bookingVars, storeVars>>

\* socket event user_connect
UserConnect(s) ==
    /\ sockets[s].open
    /\ connectedUsers' = [connectedUsers EXCEPT ![sockets[s].userId] = s]
    /\ sockets' = [sockets EXCEPT ![s].rooms = @ \cup {"user"}]
    /\ UNCHANGED <<resp, now, bookingVars, storeVars>>

\* socket event join_booking
JoinBooking(s) ==
    /\ sockets[s].open
    /\ sockets' = [sockets EXCEPT ![s].rooms = @ \cup {"booking"}]
    /\ UNCHANGED <<connectedUsers, resp, now, bookingVars, storeVars>>

\* socket event leave_booking
LeaveBooking(s) ==
    /\ sockets[s].open
    /\ sockets' = [sockets EXCEPT ![s].rooms = @ \ {"booking"}]
    /\ UNCHANGED <<connectedUsers, resp, now, bookingVars, storeVars>>

\* socket event disconnect: the socket leaves its rooms and the handler
\* deletes the entry of its user
Disconnect(s) ==
    /\ sockets[s].open
    /\ connectedUsers' = [connectedUsers EXCEPT ![sockets[s].userId] = "none"]
    /\ sockets' = [sockets EXCEPT ![s] = NoSocket]
    /\ UNCHANGED <<resp, now, bookingVars, storeVars>>

\* the sockets of user u that are open and have completed user_connect
LiveConnections(u) ==
    {s \in SocketIds : /\ sockets[s].open
                       /\ sockets[s].userId = u
                       /\ "user" \in sockets[s].rooms}

NextConnections ==
    \/ \E s \in SocketIds, u \in Users : Connection(s, u)
    \/ \E s \in SocketIds : UserConnect(s)
    \/ \E s \in SocketIds : JoinBooking(s)
    \/ \E s \in SocketIds : LeaveBooking(s)
    \/ \E s \in SocketIds : Disconnect(s)
    \/ \E s \in SocketIds, message \in MessageInputs :
          /\ sockets[s].open
          /\ SocketMessage(sockets[s].userId, message)
          /\ Bounded(MaxHistory, MaxMessages)
    \/ \E s \in SocketIds :
          /\ sockets[s].open
          /\ SocketStatusUpdate(sockets[s].userId, "confirmed", "")
          /\ Bounded(MaxHistory, MaxMessages)

SpecConnections == Init /\ [][NextConnections]_vars

-----------------------------------------------------------------------------
(* DELETE /api/community/:id *)

DeletePostCode(p, u) == IF p.author # u THEN "403" ELSE "200"

DeletePost(u) ==
    /\ LET code == DeletePostCode(post, u)
       IN  /\ resp' = Answer("delete_post", u, PostId, "none", code, -1)
           /\ post' = IF code = "200"
                      THEN postPreSave([post EXCEPT !.status = "removed"], now)
                      ELSE post
    /\ UNCHANGED <<pinflight, accounts, serviceVars, bookingVars, now,
                   socketVars>>

\* SpecDeletePost: posts with and without an expiry and a pin, delete
\* requests of every user, over time
InitDeletePost ==
    /\ booking = InitBooking(10000, 0)
    /\ reviews = << >>
    /\ users = [u \in Users |-> NewUser]
    /\ rinflight = [s \in Slots |-> NoReq]
    /\ resp = NoAnswer
    /\ \E type \in PostTypes, expiresAt \in {-1, 47, 72},
          pinnedUntil \in {-1, 47} :
          post = NewPost(type, expiresAt, pinnedUntil, 4)
    /\ pinflight = [s \in Slots |-> NoReq]
    /\ accounts = InitAccounts
    /\ service = ServiceCreate(UserA, << FALSE >>)
    /\ sinflight = NoReq
    /\ InitSockets
    /\ now = 46

NextDeletePost ==
    \/ \E u \in Users : DeletePost(u)
    \/ Tick

SpecDeletePost == InitDeletePost /\ [][NextDeletePost]_vars

\* C25: a DELETE /api/community/:id of the author is answered 200 and leaves
\* the post stored with status removed, whatever its expiry and pin dates; a
\* DELETE of any other user is answered 403 and leaves the post as it was.
C25_DeleteMarksRemoved ==
    [][resp'.op = "delete_post" /\ <<resp, post>>' # <<resp, post>>
         => IF resp'.user = post.author
            THEN resp'.code = "200" /\ post'.status = "removed"
            ELSE resp'.code = "403" /\ post' = post]_vars

-----------------------------------------------------------------------------
(* DELETE /api/reviews/:id and the review count of the reviewee *)

\* "Update user reputation" of DELETE /api/reviews/:id, before
\* reviewee.save()
UnreviewedUser(user) ==
    updateTrustScore(
        [user EXCEPT !.reputation.totalReviews =
                        IF @ - 1 > 0 THEN @ - 1 ELSE 0])

DeleteReviewCode(rs, us, u, id) ==
    LET i == ReviewIndex(rs, id)
    IN  IF i = 0 THEN "404"
        ELSE IF rs[i].reviewer # u THEN "403"
        ELSE IF ~UserSaveValidates(UnreviewedUser(us[rs[i].reviewee]))
        THEN "400"
        ELSE "200"

\* the soft delete and its save, the service summary and its save, then the
\* reviewee's reputation and its save
DeleteReview(u, id) ==
    /\ LET code == DeleteReviewCode(reviews, users, u, id)
           i == ReviewIndex(reviews, id)
           softDeleted == code \in {"200", "400"}
       IN  /\ resp' = Answer("delete_review", u, id, "none", code, -1)
           /\ reviews' = IF softDeleted
                         THEN [reviews EXCEPT ![i].isActive = FALSE]
                         ELSE reviews
           /\ service' = IF softDeleted THEN servicePreSave(service)
                         ELSE service
           /\ users' = IF code = "200"
                       THEN [users EXCEPT ![reviews[i].reviewee] =
                                UnreviewedUser(@)]
                       ELSE users
    /\ UNCHANGED <<booking, rinflight, now>>
    /\ UNCHANGED <<post, pinflight, accounts, sinflight, socketVars>>

\* the review of an earlier booking b0, completed by provider A: customer C
\* about A
EarlierReview ==
    [booking |-> "b0", reviewType |-> "customer_to_provider",
     reviewer |-> UserC, reviewee |-> UserA,
     rating |-> 5, title |-> "t1", comment |-> "c1",
     detailedRatings |-> "d1",
     isActive |-> TRUE, moderation |-> "approved", createdAt |-> 0]

\* SpecReviewCount: A has completed an earlier booking and holds its review;
\* the booking b1 is completed and reviewed by its customer B, and reviews
\* are deleted
InitReviewCount ==
    /\ booking = InProgressBooking
    /\ reviews = << EarlierReview >>
    /\ users = [u \in Users |->
                  IF u = UserA
                  THEN ReviewedUser(
                          [NewUser EXCEPT !.reputation.completedServices = 1],
                          << EarlierReview >>, UserA)
                  ELSE NewUser]
    /\ rinflight = [s \in Slots |-> NoReq]
    /\ resp = NoAnswer
    /\ InitOther
    /\ now = 48

NextReviewCount ==
    \/ \E u \in Participants :
          PutStatus(u, "completed", "")
             /\ Bounded(MaxReviewHistory, MaxMessages)
    \/ \E s \in Slots, reviewType \in ReviewTypes, rating \in Ratings :
          ReviewCheck(s, UserB, BookingId, reviewType, rating)
    \/ \E s \in Slots : ReviewCreate(s)
    \/ \E u \in Users, id \in {"r1", "r2", "r3"} : DeleteReview(u, id)

SpecReviewCount == InitReviewCount /\ [][NextReviewCount]_vars

\* the reviews with isActive whose reviewee is user u
ActiveReviewsOf(rs, u) ==
    {i \in DOMAIN rs : rs[i].reviewee = u /\ rs[i].isActive}

\* C26: after any sequence of review creations and deletions, repeated
\* deletions of a deleted review included, the totalReviews of every user is
\* the number of active reviews whose reviewee is that user.
C26_TotalReviewsCountsActive ==
    \A u \in Users :
        users[u].reputation.totalReviews
            = Cardinality(ActiveReviewsOf(reviews, u))

-----------------------------------------------------------------------------
(* The booking statistics of the service *)

\* the bookings of the service that have reached the status: the booking is
\* stamped when it reaches completed or cancelled
ReachedCompleted == IF booking.completedAt # -1 THEN 1 ELSE 0
ReachedCancelled == IF booking.cancellation.cancelledAt # -1 THEN 1 ELSE 0

\* SpecStats: the status changes of the HTTP routes, by both participants
NextStats ==
    \/ \E u \in Participants, status \in Statuses :
          \E reason \in StatusReasons(status) :
             PutStatus(u, status, reason) /\ Bounded(MaxHistory, MaxMessages)
    \/ \E u \in Participants, reason \in {"", "other"} :
          DeleteBooking(u, reason) /\ Bounded(MaxHistory, MaxMessages)

SpecStats == Init /\ [][NextStats]_vars

\* C27: the service counts in stats.completedBookings the bookings that have
\* reached completed and in stats.cancelledBookings the bookings that have
\* reached cancelled, through PUT /status as through DELETE /api/bookings/:id.
C27_StatsCountBookings ==
    /\ service.stats.completedBookings = ReachedCompleted
    /\ service.stats.cancelledBookings = ReachedCancelled

-----------------------------------------------------------------------------
(* POST /api/bookings behind the availability check *)

\* the checks of POST /api/bookings when service.isAvailable answers what
\* the schedule and the exceptions say, so that the request gets as far as
\* Booking.create
ScheduledBookingCode(sv, u, date, body, t) ==
    IF CreateBookingCode(sv, u, date, body, t) # "500"
    THEN CreateBookingCode(sv, u, date, body, t)
    ELSE IF ScheduledAvailable(sv, date) = "false" THEN "400"
    ELSE IF body.status \notin Statuses \cup {"none"} THEN "400"
    ELSE "201"

CreateBookingScheduled(u, date, body) ==
    LET code == ScheduledBookingCode(service, u, date, body, now)
    IN  /\ Authenticated(u)
        /\ resp' = Answer("post_booking", u, ServiceId, "none", code, -1)
        /\ booking' = IF code = "201"
                      THEN BookingCreateFrom(body, u, service.provider,
                                             RoutePricing(10000, "fixed", 60),
                                             0)
                      ELSE booking
        /\ UNCHANGED <<communityVars, accounts, serviceVars, reviewVars,
                       users, now, socketVars>>

NextCreate ==
    \/ \E u \in Users, date \in DateInputs, body \in BodyInputs :
          CreateBookingScheduled(u, date, body)
    \/ \E u \in Users, isPaused \in BOOLEAN : PauseService(u, isPaused)

SpecCreate == InitAvailability /\ [][NextCreate]_vars

-----------------------------------------------------------------------------
(* The booking room *)

-----------------------------------------------------------------------------
(* Requests of deactivated and suspended accounts *)

\* SpecProtect: accounts of A and B, suspended or not; registration, account
\* deletion by the user and by an admin, and the service routes of A and B
InitProtect ==
    /\ booking = InitBooking(10000, 0)
    /\ reviews = << >>
    /\ users = [u \in Users |-> NewUser]
    /\ rinflight = [s \in Slots |-> NoReq]
    /\ resp = NoAnswer
    /\ post = NewPost("event", 72, 47, 4)
    /\ pinflight = [s \in Slots |-> NoReq]
    /\ \E suspended \in [1..2 -> BOOLEAN] :
          accounts = [i \in 1..2 |->
                        [InitAccounts[i] EXCEPT !.isSuspended = suspended[i]]]
    /\ service = ServiceCreate(UserA, << FALSE >>)
    /\ sinflight = NoReq
    /\ InitSockets
    /\ now = 28

NextProtect ==
    \/ \E addr \in Emails : Register(addr) /\ AccountsBounded
    \/ \E id \in AccountIds, passwordMatches \in BOOLEAN :
          DeleteAccount(id, passwordMatches) /\ AccountsBounded
    \/ \E id \in AccountIds, isAdmin \in BOOLEAN :
          AdminDeleteUser(id, isAdmin) /\ AccountsBounded
    \/ \E u \in Participants, isPaused \in BOOLEAN : PauseService(u, isPaused)
    \/ \E u \in Participants, images \in {<< TRUE >>, << FALSE, TRUE >>} :
          UpdateService(u, images)

SpecProtect == InitProtect /\ [][NextProtect]_vars

\* the account of a participant of the booking
AccountOf(u) == IF u = UserA THEN 1 ELSE 2

\* C30: an account that is deactivated or suspended stays so, and every
\* request to a protected route with its token is rejected before the
\* handler runs: with 401 for a deactivated account, with 403 for a suspended
\* one, and without a write.
C30_RejectedOnceDeactivated ==
    [][/\ \A i \in 1..Len(accounts) :
            /\ ~accounts[i].isActive => ~accounts'[i].isActive
            /\ accounts[i].isSuspended => accounts'[i].isSuspended
            /\ (resp'.op = "delete_account" /\ resp'.target = AccountId(i)
                  /\ (~accounts[i].isActive \/ accounts[i].isSuspended))
                 => /\ resp'.code = IF ~accounts[i].isActive THEN "401"
                                    ELSE "403"
                    /\ accounts' = accounts
                    /\ service' = service
       /\ resp'.op \in {"pause_service", "put_service"}
            => /\ accounts[AccountOf(resp'.user)].isActive
               /\ ~accounts[AccountOf(resp'.user)].isSuspended]_vars

\* a delete-account request with the token of a deactivated account has been
\* answered 401
C30_Witness ==
    /\ resp.op = "delete_account"
    /\ resp.code = "401"
    /\ \E i \in 1..Len(accounts) :
          /\ resp.target = AccountId(i)
          /\ ~accounts[i].isActive
          /\ Len(accounts[i].email.stamps) = 1

====
